---- MODULE Spec2Model ----
(***************************************************************************)
(* Model of vidscript's long-transcript notes pipeline:                    *)
(*   - splitIntoChunks         (src/src/index.ts)                          *)
(*   - generateNotes / processChunk / processWithModel / processVideo      *)
(*   - the model registry      (models.ts, src/unnamed/part_005)           *)
(*   - VectorStore             (vectorStore.ts, src/unnamed/part_006)      *)
(* Strings are sequences of one-character strings, so that lengths,        *)
(* substrings and regular-expression splits are computed, not assumed.     *)
(***************************************************************************)
EXTENDS Integers, Sequences, FiniteSets, TLC

VARIABLES
    text,        \* splitIntoChunks: argument `text`
    maxLength,   \* splitIntoChunks: argument `maxLength`
    chunks,      \* splitIntoChunks: the returned array
    splitPc,     \* "call" before the call, "returned" after it
    options,     \* processVideo: the VideoOptions of the run
    env,         \* process.env: which credentials are configured
    transcript,  \* generateNotes: argument `transcript`
    pc,          \* where the run of processVideo / generateNotes stands
    segs,        \* generateNotes: `chunks`, the segments of the transcript
    idx,         \* generateNotes: the loop index `i`
    allNotes,    \* generateNotes: `allNotes`
    requests,    \* the requests sent to the model backends, in order
    outcomes,    \* what the backends answered to them, in order
    indexOps,    \* the vector-index operations issued by the run, in order
    notes,       \* the value generateNotes returned, NoValue before
    error,       \* the message of the error thrown, NoValue if none
    pdf,         \* the notes handed to createPDFfromHTML, NoValue before
    path,        \* the branch generateNotes took, "none" before
    isYouTubeUrl, \* processVideo: `isYouTubeUrl`
    videoPath,   \* processVideo: `videoPath`, Undefined before it is set
    audioPath,   \* processVideo: `audioPath`, Undefined before it is set
    fs,          \* the files that exist
    unlinked,    \* the paths processVideo handed to fs.unlinkSync, in order
    failed,      \* the stages of processVideo that threw
    vecIndex,    \* the Pinecone index: the records of each namespace
    vs,          \* the VectorStore objects: fields and position of each
    currentSpinner,      \* UIManager: `currentSpinner`
    progressBar,         \* UIManager: `progressBar`
    isProgressBarActive, \* UIManager: `isProgressBarActive`
    uiCalls,     \* how many UIManager methods have been called
    lastCall     \* the UIManager method called last, "none" before

splitVars == <<text, maxLength, chunks, splitPc>>

pvVars == <<isYouTubeUrl, videoPath, audioPath, fs, unlinked, failed>>

runVars == <<options, env, transcript, pc, segs, idx, allNotes, requests,
             outcomes, indexOps, notes, error, pdf, path, isYouTubeUrl,
             videoPath, audioPath, fs, unlinked, failed>>

vsVars == <<vecIndex, vs>>

uiVars == <<currentSpinner, progressBar, isProgressBarActive, uiCalls,
            lastCall>>

vars == <<text, maxLength, chunks, splitPc, options, env, transcript, pc,
          segs, idx, allNotes, requests, outcomes, indexOps, notes, error, pdf,
          path, isYouTubeUrl, videoPath, audioPath, fs, unlinked, failed,
          vecIndex, vs, currentSpinner, progressBar, isProgressBarActive,
          uiCalls, lastCall>>

----------------------------------------------------------------------------
(* Bounds of the model *)

\* longest text handed to splitIntoChunks
MaxTextLen == 5

\* largest maxLength handed to splitIntoChunks
MaxChunkLen == 4

\* most paragraphs of a text built from paragraphs
MaxParagraphs == 3

\* longest paragraph of a text built from paragraphs
MaxParagraphLen == 1

----------------------------------------------------------------------------
(* Characters and strings *)

\* the characters texts are made of: a letter, a sentence terminator,
\* a blank and a line feed
Alphabet == {"a", ".", " ", "\n"}

\* JavaScript's \s, restricted to Alphabet
IsWs(c) == c \in {" ", "\n"}

\* the class [.!?] of the sentence regex (index.ts:764)
IsPunct(c) == c \in {".", "!", "?"}

Min(a, b) == IF a <= b THEN a ELSE b

SetMin(S) == CHOOSE x \in S : \A y \in S : x <= y

SetMax(S) == CHOOSE x \in S : \A y \in S : x >= y

\* all strings over A of length at most n
StringsUpTo(A, n) == UNION {[1..k -> A] : k \in 0..n}

\* String.prototype.substring(from) / substring(0, to), as 1-based SubSeq
Substring(s, from0, to0) == SubSeq(s, from0 + 1, Min(to0, Len(s)))

RECURSIVE Flatten(_)
\* the concatenation of a sequence of strings
Flatten(ss) == IF ss = <<>> THEN <<>> ELSE Head(ss) \o Flatten(Tail(ss))

RECURSIVE StripWs(_)
\* s without its whitespace characters
StripWs(s) ==
    IF s = <<>> THEN <<>>
    ELSE IF IsWs(Head(s)) THEN StripWs(Tail(s))
    ELSE <<Head(s)>> \o StripWs(Tail(s))

----------------------------------------------------------------------------
(* text.split(/\n\s*\n/)   -- index.ts:751 *)

\* positions i >= from where /\n\s*\n/ matches: a line feed followed, after
\* whitespace only, by another line feed
SepStarts(s, from) ==
    {i \in from..Len(s) :
        /\ s[i] = "\n"
        /\ \E j \in (i + 1)..Len(s) :
              s[j] = "\n" /\ \A k \in (i + 1)..(j - 1) : IsWs(s[k])}

\* \s* is greedy: the match that starts at i ends at the last line feed of
\* the whitespace run that follows i
SepEnd(s, i) ==
    SetMax({j \in (i + 1)..Len(s) :
               s[j] = "\n" /\ \A k \in (i + 1)..(j - 1) : IsWs(s[k])})

RECURSIVE SplitFrom(_, _)
SplitFrom(s, from) ==
    IF SepStarts(s, from) = {}
    THEN <<SubSeq(s, from, Len(s))>>
    ELSE LET i == SetMin(SepStarts(s, from))
         IN  <<SubSeq(s, from, i - 1)>> \o SplitFrom(s, SepEnd(s, i) + 1)

\* the paragraphs of a text; a separator at either end gives an empty one
SplitParagraphs(s) == SplitFrom(s, 1)

----------------------------------------------------------------------------
(* paragraph.match(/[^.!?]+[.!?]+/g)   -- index.ts:764 *)

RECURSIVE MatchFrom(_, _)
\* the successive matches from position pos on: the leftmost match starts at
\* the first non-terminator, takes the whole run of non-terminators and the
\* whole run of terminators after it; a run of non-terminators that reaches
\* the end of the paragraph matches nothing
MatchFrom(p, pos) ==
    LET starts == {i \in pos..Len(p) : ~IsPunct(p[i])}
    IN  IF starts = {} THEN <<>>
        ELSE LET s0 == SetMin(starts)
                 e  == SetMax({j \in s0..Len(p) :
                                  \A k \in s0..j : ~IsPunct(p[k])})
             IN  IF e = Len(p) THEN <<>>
                 ELSE LET f == SetMax({j \in (e + 1)..Len(p) :
                                          \A k \in (e + 1)..j : IsPunct(p[k])})
                      IN  <<SubSeq(p, s0, f)>> \o MatchFrom(p, f + 1)

\* match(...) || [paragraph]: a null match gives the paragraph itself
Sentences(paragraph) ==
    IF MatchFrom(paragraph, 1) = <<>> THEN <<paragraph>>
    ELSE MatchFrom(paragraph, 1)

----------------------------------------------------------------------------
(* splitIntoChunks   -- index.ts:747-794 *)

\* one pass of the sentence loop (index.ts:767-780); st = [out, cur] are the
\* chunks pushed so far and sentenceChunk
SentenceStep(st, sentence, L) ==
    IF Len(st.cur \o sentence) <= L
    THEN [out |-> st.out,
          cur |-> IF st.cur # <<>> THEN st.cur \o <<" ">> \o sentence
                  ELSE sentence]
    ELSE IF st.cur # <<>>
         THEN [out |-> Append(st.out, st.cur), cur |-> sentence]
         ELSE [out |-> Append(st.out, Substring(sentence, 0, L)),
               cur |-> Substring(sentence, L, Len(sentence))]

RECURSIVE SentenceLoop(_, _, _, _)
SentenceLoop(st, sentences, k, L) ==
    IF k > Len(sentences) THEN st
    ELSE SentenceLoop(SentenceStep(st, sentences[k], L), sentences, k + 1, L)

\* the paragraph loop with the strict test `<` in place of `<=` at
\* index.ts:756
ParagraphStep_Strict(st, paragraph, L) ==
    IF Len(st.cur \o paragraph) < L
    THEN [out |-> st.out,
          cur |-> st.cur \o (IF st.cur # <<>> THEN <<"\n", "\n">> ELSE <<>>)
                         \o paragraph]
    ELSE IF st.cur # <<>>
         THEN [out |-> Append(st.out, st.cur), cur |-> paragraph]
         ELSE LET r == SentenceLoop([out |-> st.out, cur |-> <<>>],
                                    Sentences(paragraph), 1, L)
              IN  [out |-> r.out,
                   cur |-> IF r.cur # <<>> THEN r.cur ELSE st.cur]

\* one pass of the paragraph loop (index.ts:754-787); st = [out, cur] are
\* `chunks` and `currentChunk`
ParagraphStep(st, paragraph, L) ==
    IF Len(st.cur \o paragraph) <= L
    THEN [out |-> st.out,
          cur |-> st.cur \o (IF st.cur # <<>> THEN <<"\n", "\n">> ELSE <<>>)
                         \o paragraph]
    ELSE IF st.cur # <<>>
         THEN [out |-> Append(st.out, st.cur), cur |-> paragraph]
         ELSE LET r == SentenceLoop([out |-> st.out, cur |-> <<>>],
                                    Sentences(paragraph), 1, L)
              IN  [out |-> r.out,
                   cur |-> IF r.cur # <<>> THEN r.cur ELSE st.cur]

RECURSIVE ParagraphLoop_Restart(_, _, _, _)
\* the paragraph loop that, having pushed currentChunk, starts the next
\* chunk empty instead of with the paragraph (index.ts:761)
ParagraphLoop_Restart(st, paragraphs, k, L) ==
    IF k > Len(paragraphs) THEN st
    ELSE LET n == ParagraphStep(st, paragraphs[k], L)
         IN  ParagraphLoop_Restart(
                 IF Len(n.out) > Len(st.out) /\ st.cur # <<>>
                 THEN [out |-> n.out, cur |-> <<>>] ELSE n,
                 paragraphs, k + 1, L)

RECURSIVE ParagraphLoop(_, _, _, _)
ParagraphLoop(st, paragraphs, k, L) ==
    IF k > Len(paragraphs) THEN st
    ELSE ParagraphLoop(ParagraphStep(st, paragraphs[k], L), paragraphs, k + 1, L)

\* splitIntoChunks without its final push of currentChunk (index.ts:789-791)
splitIntoChunks_NoFinalPush(t, L) ==
    ParagraphLoop([out |-> <<>>, cur |-> <<>>], SplitParagraphs(t), 1, L).out

splitIntoChunks(t, L) ==
    LET r == ParagraphLoop([out |-> <<>>, cur |-> <<>>],
                           SplitParagraphs(t), 1, L)
    IN  IF r.cur # <<>> THEN Append(r.out, r.cur) ELSE r.out

----------------------------------------------------------------------------
(* The model registry   -- models.ts (src/unnamed/part_005) *)

\* contextWindow of the anthropic profiles, 200000 in models.ts, scaled to
\* the transcripts of the model
ContextWindowAnthropic == 5

\* contextWindow of the openai profiles, 128000 in models.ts, scaled
ContextWindowOpenAI == 3

\* Object.keys(MODELS), in insertion order
ModelKeys ==
    <<"claude-3-opus", "claude-3.5-sonnet", "claude-3.7-sonnet",
      "gpt-4-turbo", "gpt-4o">>

Range(f) == {f[x] : x \in DOMAIN f}

MODELS ==
    [k \in Range(ModelKeys) |->
        CASE k = "claude-3-opus" ->
               [provider |-> "anthropic",
                modelName |-> "claude-3-opus-20240229",
                contextWindow |-> ContextWindowAnthropic]
          [] k = "claude-3.5-sonnet" ->
               [provider |-> "anthropic",
                modelName |-> "claude-3-5-sonnet-20240620",
                contextWindow |-> ContextWindowAnthropic]
          [] k = "claude-3.7-sonnet" ->
               [provider |-> "anthropic",
                modelName |-> "claude-3-7-sonnet-20240723",
                contextWindow |-> ContextWindowAnthropic]
          [] k = "gpt-4-turbo" ->
               [provider |-> "openai",
                modelName |-> "gpt-4-turbo",
                contextWindow |-> ContextWindowOpenAI]
          [] k = "gpt-4o" ->
               [provider |-> "openai",
                modelName |-> "gpt-4o",
                contextWindow |-> ContextWindowOpenAI]]

RECURSIVE JoinKeys(_, _)
\* Array.prototype.join(sep) on a sequence of tokens
JoinKeys(ks, sep) ==
    IF ks = <<>> THEN <<>>
    ELSE IF Len(ks) = 1 THEN <<Head(ks)>>
    ELSE <<Head(ks), sep>> \o JoinKeys(Tail(ks), sep)

\* the message of the error getModel throws for an unknown key
UnsupportedModelMessage(modelKey) ==
    <<"Unsupported model: ", modelKey, ". Available models: ">>
        \o JoinKeys(ModelKeys, ", ")

\* getModel(modelKey): the profile, or the error thrown
getModel(modelKey) ==
    IF modelKey \notin DOMAIN MODELS
    THEN [threw |-> TRUE, message |-> UnsupportedModelMessage(modelKey)]
    ELSE [threw |-> FALSE, config |-> MODELS[modelKey]]

----------------------------------------------------------------------------
(* generateNotes, processChunk, processWithModel   -- index.ts:528-742 *)

\* a variable that holds no value yet
NoValue == <<"<none>">>

\* options.model when the caller gave none
Undefined == "<undefined>"

\* the literal generateNotes looks for in the transcript (index.ts:562)
NoAudioMarker ==
    <<"[", "T", "h", "i", "s", " ", "v", "i", "d", "e", "o", " ", "a",
      "p", "p", "e", "a", "r", "s", " ", "t", "o", " ", "h", "a", "v",
      "e", " ", "n", "o", " ", "a", "u", "d", "i", "o", " ", "c", "o",
      "n", "t", "e", "n", "t">>

\* the transcript processVideo substitutes when there is no audio
\* (index.ts:137, 147)
NoAudioTranscript ==
    NoAudioMarker \o
    <<" ", "t", "o", " ", "t", "r", "a", "n", "s", "c", "r", "i", "b",
      "e", "]">>

\* String.prototype.includes
Includes(s, sub) ==
    \E k \in 0..(Len(s) - Len(sub)) : SubSeq(s, k + 1, k + Len(sub)) = sub

\* String.prototype.trim
Trim(s) ==
    LET keep == {k \in 1..Len(s) : ~IsWs(s[k])}
    IN  IF keep = {} THEN <<>> ELSE SubSeq(s, SetMin(keep), SetMax(keep))

\* the guard of index.ts:559-563
IsEmptyTranscript(t) ==
    \/ t = <<>>
    \/ Len(Trim(t)) = 0
    \/ Includes(t, NoAudioMarker)

\* the fixed text returned for an empty transcript (index.ts:565)
NoContentNotes == <<"No content was generated.">>

\* Math.floor(modelConfig.contextWindow * 0.7)   (index.ts:572)
MaxChunkLength(modelConfig) == (modelConfig.contextWindow * 7) \div 10

\* max_tokens / max_tokens_to_sample of every request (index.ts:721, 735)
MaxOutputTokens == 4096

NoteTakerPersona == "You are a professional note-taker"

EditorPersona == "You are a professional editor"

\* the requests with the cap of the anthropic branch twice that of the
\* openai branch
BackendRequest_ProviderCap(prompt, modelConfig, systemPrompt) ==
    IF modelConfig.provider = "openai"
    THEN [backend |-> "openai", model |-> modelConfig.modelName,
          system |-> systemPrompt, prompt |-> prompt,
          max_tokens |-> MaxOutputTokens]
    ELSE [backend |-> "anthropic", model |-> modelConfig.modelName,
          system |-> "<absent>", prompt |-> prompt,
          max_tokens |-> 2 * MaxOutputTokens]

\* the request a model call sends, per provider: the openai request carries
\* the system prompt as a message, the anthropic request has no such field
BackendRequest(prompt, modelConfig, systemPrompt) ==
    IF modelConfig.provider = "openai"
    THEN [backend |-> "openai", model |-> modelConfig.modelName,
          system |-> systemPrompt, prompt |-> prompt,
          max_tokens |-> MaxOutputTokens]
    ELSE [backend |-> "anthropic", model |-> modelConfig.modelName,
          system |-> "<absent>", prompt |-> prompt,
          max_tokens |-> MaxOutputTokens]

\* the credential checks of the two branches exchanged
RequiredCredential_Swapped(modelConfig) ==
    IF modelConfig.provider = "openai" THEN "ANTHROPIC_API_KEY"
    ELSE "OPENAI_API_KEY"

\* the credential processWithModel requires for a profile
RequiredCredential(modelConfig) ==
    IF modelConfig.provider = "openai" THEN "OPENAI_API_KEY"
    ELSE "ANTHROPIC_API_KEY"

\* processWithModel up to its await: the error thrown when the credential
\* is missing, or the request sent
processWithModel(prompt, modelConfig, systemPrompt, e) ==
    IF ~e[RequiredCredential(modelConfig)]
    THEN [threw |-> TRUE,
          message |-> <<RequiredCredential(modelConfig), " is required for ",
                        modelConfig.modelName, " model">>]
    ELSE [threw |-> FALSE,
          request |-> BackendRequest(prompt, modelConfig, systemPrompt)]

\* `${options.language}`: an option that was not given prints as "undefined"
LanguageText == IF options.language = Undefined THEN "undefined"
                ELSE options.language

\* languageInstruction of generateNotes (index.ts:553-556), part of every
\* prompt (index.ts:618, 640, 679)
languageInstruction ==
    IF options.language # "english"
    THEN <<"Write the notes in ", LanguageText, ".">>
    ELSE <<>>

\* the prompt of processChunk for segment k (1-based) of n: the segment
\* prefixed by "PART k OF n: "
ChunkPrompt(k, n, segment) ==
    [kind |-> "segment", part |-> k, of |-> n, body |-> segment,
     language |-> languageInstruction]

\* the integration prompt (index.ts:609-622)
IntegrationPrompt(n, accumulated) ==
    [kind |-> "integration", part |-> 0, of |-> n, body |-> accumulated,
     language |-> languageInstruction]

\* the prompt of the direct path (index.ts:638-658)
DirectPrompt(t) ==
    [kind |-> "direct", part |-> 0, of |-> 0, body |-> t,
     language |-> languageInstruction]

\* the error generateNotes rethrows (index.ts:663)
WrapNotesError(message) == <<"Failed to generate notes: ">> \o message

\* the error createPDF rethrows (index.ts:813)
WrapPdfError(message) == <<"Failed to create PDF: ">> \o message

\* modelConfig of the run: getModel(options.model || "claude-3.7-sonnet")
SelectedKey == IF options.model = Undefined THEN "claude-3.7-sonnet"
               ELSE options.model

ModelConfig == getModel(SelectedKey).config

----------------------------------------------------------------------------
(* The values the variables of the run and of splitIntoChunks keep in a
   specification that does not exercise them *)

\* the video file the user names in options.input
UserVideo == "input.mp4"

\* path.join(os.tmpdir(), `video_${Date.now()}.mp4`)   (index.ts:201, 322)
TmpVideo == "tmp/video_0.mp4"

\* path.join(os.tmpdir(), `audio_${timestamp}_${randomSuffix}.mp3`)
\* (index.ts:378-381, 406-409)
TmpAudio == "tmp/audio_0_0.mp3"

\* audioPath + ".pcm"   (index.ts:472)
TmpPcm == "tmp/audio_0_0.mp3.pcm"

RunIdle ==
    /\ options = [model |-> Undefined, language |-> Undefined,
                  vectorStore |-> [enabled |-> FALSE]]
    /\ env = [c \in {"OPENAI_API_KEY", "ANTHROPIC_API_KEY"} |-> FALSE]
    /\ transcript = <<>>
    /\ pc = "idle"
    /\ segs = <<>>
    /\ idx = 0
    /\ allNotes = <<>>
    /\ requests = <<>>
    /\ outcomes = <<>>
    /\ indexOps = <<>>
    /\ notes = NoValue
    /\ error = NoValue
    /\ pdf = NoValue
    /\ path = "none"
    /\ isYouTubeUrl = FALSE
    /\ videoPath = Undefined
    /\ audioPath = Undefined
    /\ fs = {}
    /\ unlinked = <<>>
    /\ failed = {}

SplitIdle ==
    /\ text = <<>>
    /\ maxLength = 1
    /\ chunks = <<>>
    /\ splitPc = "idle"

\* a widget field of the UIManager holding null
NoWidget == [kind |-> "null"]

\* the UIManager as constructed, no method called
UiIdle ==
    /\ currentSpinner = NoWidget
    /\ progressBar = NoWidget
    /\ isProgressBarActive = FALSE
    /\ uiCalls = 0
    /\ lastCall = "none"

----------------------------------------------------------------------------
(* VectorStore   -- vectorStore.ts (src/unnamed/part_006) *)

\* chunkSize of storeTranscript, 2000 in vectorStore.ts:67, scaled
ChunkSize == 10

\* batchSize of storeTranscript, 10 in vectorStore.ts:74, scaled
BatchSize == 2

\* longest transcript handed to storeTranscript
MaxStoredLen == 2

\* largest topK handed to query
MaxTopK == 3

\* operations each store performs at most
MaxStoreOps == 2

\* the VectorStore objects, both on the same index
Stores == {"A", "B"}

\* the namespace an index handle targets when none was selected with
\* index.namespace(...): Pinecone's default namespace
PineconeDefaultNamespace == ""

IndexNamespaces == {PineconeDefaultNamespace, "default", "run-a", "run-b"}

\* this.namespace = options.namespace || 'default'   (vectorStore.ts:45)
ConstructedNamespace(given) == IF given = Undefined THEN "default" ELSE given

\* the namespace upsert, query and deleteAll act on: they are called on
\* this.index = pinecone.index(indexName) (vectorStore.ts:44, 97, 110, 137),
\* which this.namespace never scopes
TargetNamespace(store) == PineconeDefaultNamespace

Ceil(a, b) == (a + b - 1) \div b

\* Math.ceil(chunkSize / 5): the words of a chunk (vectorStore.ts:68)
WordsPerChunk == Ceil(ChunkSize, 5)

RECURSIVE SplitAtSpaces(_)
\* transcript.split(' ')
SplitAtSpaces(t) ==
    LET sp == {k \in 1..Len(t) : t[k] = " "}
    IN  IF sp = {} THEN <<t>>
        ELSE <<SubSeq(t, 1, SetMin(sp) - 1)>>
                 \o SplitAtSpaces(SubSeq(t, SetMin(sp) + 1, Len(t)))

RECURSIVE JoinWithSpaces(_)
\* chunkWords.join(' ')
JoinWithSpaces(ws) ==
    IF ws = <<>> THEN <<>>
    ELSE IF Len(ws) = 1 THEN Head(ws)
    ELSE Head(ws) \o <<" ">> \o JoinWithSpaces(Tail(ws))

RECURSIVE LodashChunk_DropsRemainder(_, _)
\* a chunk(array, size) that drops the last group when it is not full
LodashChunk_DropsRemainder(arr, size) ==
    IF Len(arr) < size THEN <<>>
    ELSE <<SubSeq(arr, 1, size)>>
             \o LodashChunk_DropsRemainder(SubSeq(arr, size + 1, Len(arr)),
                                           size)

RECURSIVE LodashChunk(_, _)
\* lodash chunk(array, size)
LodashChunk(arr, size) ==
    IF arr = <<>> THEN <<>>
    ELSE <<SubSeq(arr, 1, Min(size, Len(arr)))>>
             \o LodashChunk(SubSeq(arr, size + 1, Len(arr)), size)

\* the chunks storeTranscript embeds (vectorStore.ts:68-69)
TranscriptChunks(t) ==
    LET groups == LodashChunk(SplitAtSpaces(t), WordsPerChunk)
    IN  [k \in 1..Len(groups) |-> JoinWithSpaces(groups[k])]

\* the default of the parameter `metadata` of storeTranscript: {}
NoMetadata == [k \in {} |-> 0]

\* the metadata a caller may hand to storeTranscript: none, a key of its
\* own, or a key that ChunkMetadata has too
CallerMetadata ==
    {NoMetadata, [source |-> "video"], [text |-> <<"x">>]}

\* {text, chunkIndex: i + index, totalChunks: chunks.length, ...metadata}:
\* a key of the caller's metadata replaces the key of the same name
\* (vectorStore.ts:82-87)
ChunkMetadata(cs, j, metadata) ==
    metadata @@ [text |-> cs[j + 1], chunkIndex |-> j,
                 totalChunks |-> Len(cs)]

\* the record built for the chunk at 0-based position j
\* (vectorStore.ts:82-92), its metadata written next to its id; `by` tells
\* which store built it
ChunkRecord(s, cs, j) ==
    [id |-> <<"chunk_", j>>, by |-> s]
        @@ ChunkMetadata(cs, j, vs[s].metadata)

\* the 0-based positions of the batch that starts at i (vectorStore.ts:76)
BatchPositions(cs, i) == {j \in i..(i + BatchSize - 1) : j < Len(cs)}

\* index.upsert: a record replaces the record of the same id
Upserted(existing, recs) ==
    {r \in existing : \A n \in recs : n.id # r.id} \cup recs

\* what a failing call of a backend, of the index or of the PDF rendering
\* may report
FailureMessages == {<<"request failed">>}

\* no call of the store has rejected
NoError == [op |-> "none", message |-> NoValue]

\* a VectorStore object between two calls, its last call having returned
\* nothing
IdleStore(ns) ==
    [namespace |-> ns, pc |-> "idle", stored |-> <<>>,
     metadata |-> NoMetadata, chunks |-> <<>>, i |-> 0,
     pending |-> {}, topK |-> 0, reply |-> <<>>, results |-> <<>>,
     error |-> NoError, ops |-> 0]

VsIdle ==
    /\ vecIndex = [ns \in IndexNamespaces |-> {}]
    /\ vs = [s \in Stores |-> [IdleStore("default") EXCEPT !.pc = "absent"]]

VsInit ==
    /\ vecIndex = [ns \in IndexNamespaces |-> {}]
    /\ \E given \in [Stores -> {"run-a", "run-b", Undefined}] :
          /\ given["A"] # given["B"]
          /\ vs = [s \in Stores |->
                     IdleStore(ConstructedNamespace(given[s]))]
    /\ SplitIdle
    /\ RunIdle
    /\ UiIdle

\* storeTranscript(t, metadata) from its entry to the await of the first
\* batch's embeddings, for a transcript t of T and a metadata of Metas
\* (vectorStore.ts:63-81)
StoreTranscriptOf(s, T, Metas) ==
    /\ vs[s].pc = "idle"
    /\ vs[s].ops < MaxStoreOps
    /\ \E t \in T, md \in Metas :
          vs' = [vs EXCEPT ![s].pc = "embedding",
                           ![s].stored = t,
                           ![s].metadata = md,
                           ![s].topK = 0,
                           ![s].reply = <<>>,
                           ![s].results = <<>>,
                           ![s].error = NoError,
                           ![s].chunks = TranscriptChunks(t),
                           ![s].i = 0,
                           ![s].pending = BatchPositions(TranscriptChunks(t), 0),
                           ![s].ops = @ + 1]
    /\ UNCHANGED vecIndex
    /\ UNCHANGED <<splitVars, runVars, uiVars>>

StoreTranscript(s) ==
    StoreTranscriptOf(s, StringsUpTo({"w", " "}, MaxStoredLen), {NoMetadata})

\* the upsert issued as soon as one embedding of the batch has returned
EmbeddingReturns_First(s) ==
    /\ vs[s].pc = "embedding"
    /\ \E j \in vs[s].pending :
          vs' = [vs EXCEPT ![s].pending = @ \ {j}, ![s].pc = "upserting"]
    /\ UNCHANGED vecIndex
    /\ UNCHANGED <<splitVars, runVars, uiVars>>

\* the embedding of the chunk at position j returns; when it is the last of
\* the batch, Promise.all resolves and the upsert is issued
\* (vectorStore.ts:79-97)
EmbeddingReturns(s) ==
    /\ vs[s].pc = "embedding"
    /\ \E j \in vs[s].pending :
          vs' = [vs EXCEPT ![s].pending = @ \ {j},
                           ![s].pc = IF vs[s].pending = {j} THEN "upserting"
                                     ELSE "embedding"]
    /\ UNCHANGED vecIndex
    /\ UNCHANGED <<splitVars, runVars, uiVars>>

\* the upsert of the batch completes; the loop goes on to the next batch or
\* storeTranscript returns (vectorStore.ts:75, 97-100)
UpsertCompletes(s) ==
    /\ vs[s].pc = "upserting"
    /\ LET st   == vs[s]
           recs == {ChunkRecord(s, st.chunks, j) :
                       j \in BatchPositions(st.chunks, st.i)}
           ni   == st.i + BatchSize
       IN  /\ vecIndex' = [vecIndex EXCEPT ![TargetNamespace(st)] =
                              Upserted(@, recs)]
           /\ vs' = [vs EXCEPT
                       ![s].stored = IF ni < Len(st.chunks) THEN @ ELSE <<>>,
                       ![s].metadata = IF ni < Len(st.chunks) THEN @
                                       ELSE NoMetadata,
                       ![s].chunks = IF ni < Len(st.chunks) THEN @ ELSE <<>>,
                       ![s].i = IF ni < Len(st.chunks) THEN ni ELSE 0,
                       ![s].pc = IF ni < Len(st.chunks) THEN "embedding"
                                 ELSE "idle",
                       ![s].pending = IF ni < Len(st.chunks)
                                      THEN BatchPositions(st.chunks, ni)
                                      ELSE {}]
    /\ UNCHANGED <<splitVars, runVars, uiVars>>

\* query from its entry to the await of the query's embedding
\* (vectorStore.ts:106-108)
QueryStarts(s) ==
    /\ vs[s].pc = "idle"
    /\ vs[s].ops < MaxStoreOps
    /\ \E k \in 1..MaxTopK :
          vs' = [vs EXCEPT ![s].pc = "queryEmbedding", ![s].topK = k,
                           ![s].reply = <<>>,
                           ![s].results = <<>>,
                           ![s].error = NoError,
                           ![s].ops = @ + 1]
    /\ UNCHANGED vecIndex
    /\ UNCHANGED <<splitVars, runVars, uiVars>>

\* the query's embedding returns and index.query is issued
\* (vectorStore.ts:108-114)
QueryEmbedded(s) ==
    /\ vs[s].pc = "queryEmbedding"
    /\ vs' = [vs EXCEPT ![s].pc = "querying"]
    /\ UNCHANGED vecIndex
    /\ UNCHANGED <<splitVars, runVars, uiVars>>

\* the similarity scores of the matches
Scores == {1, 2}

\* which of the fields the filter of query looks at a match has: all of
\* them, no numeric score, metadata without a string text, or no metadata
MatchShapes == {"full", "noScore", "noText", "noMetadata"}

\* a match of results.matches for the record r
Match(r, score, shape) == [record |-> r, score |-> score, shape |-> shape]

\* the sequences of n distinct elements of S
Arrangements(S, n) ==
    {f \in [1..n -> S] : \A a, b \in 1..n : a # b => f[a] # f[b]}

\* the answers of an index that ranks: the topK nearest records of the
\* namespace, every field present, from the highest score down
RankedReplies(stored, topK) ==
    LET n == Min(topK, Cardinality(stored))
    IN  {[k \in 1..n |-> Match(f[k], n - k + 1, "full")] :
            f \in Arrangements(stored, n)}

\* the answers of any index: at most topK matches for distinct records of
\* the namespace, in any order, with any score, some without the fields
\* query asks for
AnyReplies(stored, topK) ==
    UNION {{[k \in 1..n |-> Match(f[k], sc[k], sh[k])] :
               f \in Arrangements(stored, n),
               sc \in [1..n -> Scores],
               sh \in [1..n -> MatchShapes]} :
             n \in 0..Min(topK, Cardinality(stored))}

\* the filter of query without its test of the score
IsPineconeMatch_Unscored(match) ==
    /\ match.shape # "noMetadata"
    /\ match.shape # "noText"

\* the predicate of the filter (vectorStore.ts:119-124)
IsPineconeMatch(match) ==
    /\ match.shape # "noMetadata"
    /\ match.shape # "noText"
    /\ match.shape # "noScore"

\* .map(match => ({text, score, metadata}))   (vectorStore.ts:125-129)
QueryResult(match) ==
    [text |-> match.record.text, score |-> match.score,
     metadata |-> match.record]

\* results.matches.filter(...).map(...): the order of the matches is kept
QueryResults(matches) ==
    LET kept == SelectSeq(matches, IsPineconeMatch)
    IN  [k \in 1..Len(kept) |-> QueryResult(kept[k])]

\* index.query answers with one of `replies`; query returns the results it
\* makes of the matches (vectorStore.ts:110-129)
QueryAnswered(s, replies) ==
    /\ vs[s].pc = "querying"
    /\ \E matches \in replies :
          vs' = [vs EXCEPT ![s].pc = "idle",
                           ![s].reply = matches,
                           ![s].results = QueryResults(matches)]
    /\ UNCHANGED vecIndex
    /\ UNCHANGED <<splitVars, runVars, uiVars>>

QueryReturns(s) ==
    QueryAnswered(s, RankedReplies(vecIndex[TargetNamespace(vs[s])],
                                   vs[s].topK))

\* clear up to the await of index.deleteAll (vectorStore.ts:135-137)
ClearStarts(s) ==
    /\ vs[s].pc = "idle"
    /\ vs[s].ops < MaxStoreOps
    /\ vs' = [vs EXCEPT ![s].pc = "clearing", ![s].topK = 0,
                     ![s].reply = <<>>, ![s].results = <<>>,
                     ![s].error = NoError, ![s].ops = @ + 1]
    /\ UNCHANGED vecIndex
    /\ UNCHANGED <<splitVars, runVars, uiVars>>

\* index.deleteAll completes: the namespace it acts on is emptied
ClearCompletes(s) ==
    /\ vs[s].pc = "clearing"
    /\ vecIndex' = [vecIndex EXCEPT ![TargetNamespace(vs[s])] = {}]
    /\ vs' = [vs EXCEPT ![s].pc = "idle"]
    /\ UNCHANGED <<splitVars, runVars, uiVars>>

VsNext ==
    \/ \E s \in Stores : StoreTranscript(s)
    \/ \E s \in Stores : EmbeddingReturns(s)
    \/ \E s \in Stores : UpsertCompletes(s)
    \/ \E s \in Stores : QueryStarts(s)
    \/ \E s \in Stores : QueryEmbedded(s)
    \/ \E s \in Stores : QueryReturns(s)
    \/ \E s \in Stores : ClearStarts(s)
    \/ \E s \in Stores : ClearCompletes(s)

SpecVS == VsInit /\ [][VsNext]_vars

----------------------------------------------------------------------------
(* One VectorStore object, its calls one after the other, any of them
   failing   -- vectorStore.ts (src/unnamed/part_006) *)

\* most words of a transcript stored by the single store
MaxWords == 5

TheStore == "A"

\* transcripts of 1..MaxWords words, and the short strings of words and
\* spaces
WordTranscripts ==
    {JoinWithSpaces([k \in 1..n |-> <<"w">>]) : n \in 1..MaxWords}
        \cup StringsUpTo({"w", " "}, MaxStoredLen)

\* the method a store is in at position p
MethodAt(p) ==
    CASE p \in {"embedding", "upserting"} -> "storeTranscript"
      [] p \in {"queryEmbedding", "querying"} -> "query"
      [] p = "clearing" -> "clear"
      [] OTHER -> "none"

StoreInit ==
    /\ vecIndex = [ns \in IndexNamespaces |-> {}]
    /\ \E given \in {"run-a", Undefined} :
          vs = [s \in Stores |->
                  IF s = TheStore THEN IdleStore(ConstructedNamespace(given))
                  ELSE [IdleStore("default") EXCEPT !.pc = "absent"]]
    /\ SplitIdle
    /\ RunIdle
    /\ UiIdle

StoreWords == StoreTranscriptOf(TheStore, WordTranscripts, CallerMetadata)

QueryReturnsAny ==
    QueryAnswered(TheStore, AnyReplies(vecIndex[TargetNamespace(vs[TheStore])],
                                       vs[TheStore].topK))

\* a failure that also deletes what the namespace holds
AwaitedCallFails_RollsBack(s) ==
    /\ vs[s].pc \in {"embedding", "upserting", "queryEmbedding", "querying",
                     "clearing"}
    /\ \E msg \in FailureMessages :
          vs' = [vs EXCEPT ![s].pc = "idle",
                           ![s].error = [op |-> MethodAt(vs[s].pc),
                                         message |-> msg],
                           ![s].stored = <<>>,
                           ![s].metadata = NoMetadata,
                           ![s].chunks = <<>>,
                           ![s].i = 0,
                           ![s].pending = {}]
    /\ vecIndex' = [vecIndex EXCEPT ![TargetNamespace(vs[s])] = {}]
    /\ UNCHANGED <<splitVars, runVars, uiVars>>

\* the call a method awaits (textToEmbedding, index.upsert, index.query,
\* index.deleteAll) rejects: no method of VectorStore catches, so the method
\* rejects with that error; the embeddings of the batch still pending are
\* abandoned and what earlier batches upserted stays in the index
AwaitedCallFails(s) ==
    /\ vs[s].pc \in {"embedding", "upserting", "queryEmbedding", "querying",
                     "clearing"}
    /\ \E msg \in FailureMessages :
          vs' = [vs EXCEPT ![s].pc = "idle",
                           ![s].error = [op |-> MethodAt(vs[s].pc),
                                         message |-> msg],
                           ![s].stored = <<>>,
                           ![s].metadata = NoMetadata,
                           ![s].chunks = <<>>,
                           ![s].i = 0,
                           ![s].pending = {}]
    /\ UNCHANGED vecIndex
    /\ UNCHANGED <<splitVars, runVars, uiVars>>

StoreNext ==
    \/ StoreWords
    \/ EmbeddingReturns(TheStore)
    \/ UpsertCompletes(TheStore)
    \/ QueryStarts(TheStore)
    \/ QueryEmbedded(TheStore)
    \/ QueryReturnsAny
    \/ ClearStarts(TheStore)
    \/ ClearCompletes(TheStore)
    \/ AwaitedCallFails(TheStore)

SpecStore == StoreInit /\ [][StoreNext]_vars

----------------------------------------------------------------------------
(* One run of processVideo from the call of generateNotes on
   -- index.ts:151-191, 528-665 *)

\* longest transcript of a run (the no-audio transcript apart)
MaxTranscriptLen == 4

\* the characters of the transcripts of a run
TranscriptAlphabet == {"a", ".", "\n"}

\* what a backend may answer
Responses == {<<"n1">>, <<"n2">>}

\* options.language: the default of the CLI, another language, or none
\* (VideoOptions.language is optional)
Languages == {"english", "french", Undefined}

Transcripts ==
    StringsUpTo(TranscriptAlphabet, MaxTranscriptLen)
        \cup {NoAudioTranscript, <<"a">> \o NoAudioTranscript}

\* the run at the call of generateNotes (index.ts:154), for a video file of
\* the user whose audio was extracted and transcribed
Init ==
    /\ options \in [model : Range(ModelKeys) \cup {"gpt-4", "nonexistent", Undefined},
                    language : Languages,
                    vectorStore : [enabled : BOOLEAN]]
    /\ env \in [{"OPENAI_API_KEY", "ANTHROPIC_API_KEY"} -> BOOLEAN]
    /\ transcript \in Transcripts
    /\ pc = "generateNotes"
    /\ segs = <<>>
    /\ idx = 0
    /\ allNotes = <<>>
    /\ requests = <<>>
    /\ outcomes = <<>>
    /\ indexOps = <<>>
    /\ notes = NoValue
    /\ error = NoValue
    /\ pdf = NoValue
    /\ path = "none"
    /\ isYouTubeUrl = FALSE
    /\ videoPath = UserVideo
    /\ audioPath = TmpAudio
    /\ fs = {UserVideo, TmpAudio}
    /\ unlinked = <<>>
    /\ failed = {}
    /\ SplitIdle
    /\ VsIdle
    /\ UiIdle

\* the error logged, and processVideo carrying on to createPDF
NotesThrow_Continue(message) ==
    /\ error' = WrapNotesError(message)
    /\ pc' = "createPDF"

\* generateNotes throws: its catch wraps the message (index.ts:662-664) and
\* processVideo rethrows it (index.ts:187-190)
NotesThrow(message) ==
    /\ error' = WrapNotesError(message)
    /\ pc' = "rejected"

\* a call of processWithModel that sends its request twice
IssueCall_Twice(prompt, systemPrompt, awaiting) ==
    LET o == processWithModel(prompt, ModelConfig, systemPrompt, env)
    IN  IF o.threw
        THEN NotesThrow(o.message) /\ UNCHANGED requests
        ELSE /\ requests' = requests \o <<o.request, o.request>>
             /\ pc' = awaiting
             /\ UNCHANGED error

\* a call of processWithModel, up to the point where generateNotes awaits
\* the backend at `awaiting`
IssueCall(prompt, systemPrompt, awaiting) ==
    LET o == processWithModel(prompt, ModelConfig, systemPrompt, env)
    IN  IF o.threw
        THEN NotesThrow(o.message) /\ UNCHANGED requests
        ELSE /\ requests' = Append(requests, o.request)
             /\ pc' = awaiting
             /\ UNCHANGED error

\* the integration call made for a single segment too
NeedsIntegration_Always(n) == n >= 1

\* the test `chunks.length > 1` that guards the integration call
\* (index.ts:605)
NeedsIntegration(n) == n > 1

\* generateNotes returns v: processVideo goes on to createPDF
NotesReturn(v) ==
    /\ notes' = v
    /\ pc' = "createPDF"
    /\ UNCHANGED <<requests, error>>

\* generateNotes from its entry to its first await, return or throw
\* (index.ts:532-600, 636-660)
GenerateNotes ==
    /\ pc = "generateNotes"
    /\ IF IsEmptyTranscript(transcript)
       THEN /\ NotesReturn(NoContentNotes)
            /\ path' = "empty"
            /\ UNCHANGED <<segs, idx, allNotes>>
       ELSE IF getModel(SelectedKey).threw
       THEN /\ NotesThrow(getModel(SelectedKey).message)
            /\ UNCHANGED <<requests, notes, path, segs, idx, allNotes>>
       ELSE IF Len(transcript) > MaxChunkLength(ModelConfig)
       THEN LET cs == splitIntoChunks(transcript, MaxChunkLength(ModelConfig))
            IN  /\ path' = "chunk"
                /\ segs' = cs
                /\ idx' = 0
                /\ allNotes' = <<>>
                /\ IF Len(cs) > 0
                   THEN /\ IssueCall(ChunkPrompt(1, Len(cs), cs[1]),
                                     NoteTakerPersona, "awaitChunk")
                        /\ UNCHANGED notes
                   ELSE NotesReturn(<<>>)
       ELSE /\ path' = "direct"
            /\ IssueCall(DirectPrompt(transcript), NoteTakerPersona,
                         "awaitDirect")
            /\ UNCHANGED <<notes, segs, idx, allNotes>>
    /\ UNCHANGED <<options, env, transcript, outcomes, indexOps, pdf>>
    /\ UNCHANGED pvVars
    /\ UNCHANGED splitVars
    /\ UNCHANGED <<vsVars, uiVars>>

\* the backend answers the call of the direct path (index.ts:660)
DirectResponds ==
    /\ pc = "awaitDirect"
    /\ \E r \in Responses :
          /\ outcomes' = Append(outcomes, [ok |-> TRUE, text |-> r])
          /\ NotesReturn(r)
    /\ UNCHANGED <<options, env, transcript, segs, idx, allNotes, indexOps,
                   pdf, path>>
    /\ UNCHANGED pvVars
    /\ UNCHANGED splitVars
    /\ UNCHANGED <<vsVars, uiVars>>

\* the notes of a segment put in front of the accumulated notes
Accumulate_Prepend(all, chunkNotes) == chunkNotes \o <<"\n\n">> \o all

\* allNotes += chunkNotes + "\n\n" (index.ts:595)
Accumulate(all, chunkNotes) == all \o chunkNotes \o <<"\n\n">>

\* the backend answers the call for segment idx+1: the loop body ends
\* (index.ts:595-600) and generateNotes runs to its next await or return
\* (index.ts:584-593, 602-635)
ChunkResponds ==
    /\ pc = "awaitChunk"
    /\ \E r \in Responses :
          LET acc == Accumulate(allNotes, r)
              n   == Len(segs)
          IN  /\ outcomes' = Append(outcomes, [ok |-> TRUE, text |-> r])
              /\ allNotes' = acc
              /\ idx' = idx + 1
              /\ IF idx + 1 < n
                 THEN /\ IssueCall(ChunkPrompt(idx + 2, n, segs[idx + 2]),
                                   NoteTakerPersona, "awaitChunk")
                      /\ UNCHANGED notes
                 ELSE IF NeedsIntegration(n)
                 THEN /\ IssueCall(IntegrationPrompt(n, acc), EditorPersona,
                                   "awaitIntegration")
                      /\ UNCHANGED notes
                 ELSE NotesReturn(acc)
    /\ UNCHANGED <<options, env, transcript, segs, indexOps, pdf, path>>
    /\ UNCHANGED pvVars
    /\ UNCHANGED splitVars
    /\ UNCHANGED <<vsVars, uiVars>>

\* the backend answers the integration call (index.ts:625-632)
IntegrationResponds ==
    /\ pc = "awaitIntegration"
    /\ \E r \in Responses :
          /\ outcomes' = Append(outcomes, [ok |-> TRUE, text |-> r])
          /\ NotesReturn(r)
    /\ UNCHANGED <<options, env, transcript, segs, idx, allNotes, indexOps,
                   pdf, path>>
    /\ UNCHANGED pvVars
    /\ UNCHANGED splitVars
    /\ UNCHANGED <<vsVars, uiVars>>

\* the awaited backend call rejects: nothing catches it before the catch of
\* generateNotes
ModelCallFails ==
    /\ pc \in {"awaitDirect", "awaitChunk", "awaitIntegration"}
    /\ \E m \in FailureMessages :
          /\ outcomes' = Append(outcomes, [ok |-> FALSE, text |-> m])
          /\ NotesThrow(m)
    /\ UNCHANGED <<options, env, transcript, segs, idx, allNotes, requests,
                   indexOps, notes, pdf, path>>
    /\ UNCHANGED pvVars
    /\ UNCHANGED splitVars
    /\ UNCHANGED <<vsVars, uiVars>>

\* the cleanup that unlinks the video whatever the input was
CleanupTargets_AnyVideo ==
    (IF videoPath # Undefined THEN <<videoPath>> ELSE <<>>)
        \o (IF audioPath # Undefined THEN <<audioPath>> ELSE <<>>)

\* the paths the cleanup hands to fs.unlinkSync (index.ts:164-177)
CleanupTargets ==
    (IF isYouTubeUrl /\ videoPath # Undefined THEN <<videoPath>> ELSE <<>>)
        \o (IF audioPath # Undefined THEN <<audioPath>> ELSE <<>>)

\* createPDF(notes, options) resolves (index.ts:160, 806-811) and
\* processVideo runs to its return: the temporary files are unlinked, an
\* unlink that throws is ignored and leaves its file (index.ts:163-186)
CreatePDF ==
    /\ pc = "createPDF"
    /\ pdf' = Trim(notes)
    /\ unlinked' = CleanupTargets
    /\ \E kept \in SUBSET Range(CleanupTargets) :
          fs' = fs \ (Range(CleanupTargets) \ kept)
    /\ pc' = "resolved"
    /\ UNCHANGED <<options, env, transcript, segs, idx, allNotes, requests,
                   outcomes, indexOps, notes, error, path>>
    /\ UNCHANGED <<isYouTubeUrl, videoPath, audioPath, failed>>
    /\ UNCHANGED splitVars
    /\ UNCHANGED <<vsVars, uiVars>>

\* createPDFfromHTML rejects: createPDF wraps the error (index.ts:812-814)
\* and processVideo rethrows it
CreatePDFFails ==
    /\ pc = "createPDF"
    /\ \E m \in FailureMessages : error' = WrapPdfError(m)
    /\ pc' = "rejected"
    /\ UNCHANGED <<options, env, transcript, segs, idx, allNotes, requests,
                   outcomes, indexOps, notes, pdf, path>>
    /\ UNCHANGED pvVars
    /\ UNCHANGED splitVars
    /\ UNCHANGED <<vsVars, uiVars>>

Next ==
    \/ GenerateNotes
    \/ DirectResponds
    \/ ChunkResponds
    \/ IntegrationResponds
    \/ ModelCallFails
    \/ CreatePDF
    \/ CreatePDFFails

Spec == Init /\ [][Next]_vars

----------------------------------------------------------------------------
(* processVideo from its entry   -- index.ts:81-191 *)

\* what generateNotes leaves alone before it is called
NotesUntouched ==
    UNCHANGED <<options, env, segs, idx, allNotes, requests, outcomes,
                indexOps, notes, pdf, path, unlinked>>

PvInit ==
    /\ options \in [model : {Undefined, "gpt-4o", "nonexistent"},
                    language : {"english"},
                    vectorStore : [enabled : {FALSE}]]
    /\ env \in [{"OPENAI_API_KEY", "ANTHROPIC_API_KEY"} -> BOOLEAN]
    /\ isYouTubeUrl \in BOOLEAN
    /\ transcript = <<>>
    /\ pc = "processVideo"
    /\ segs = <<>>
    /\ idx = 0
    /\ allNotes = <<>>
    /\ requests = <<>>
    /\ outcomes = <<>>
    /\ indexOps = <<>>
    /\ notes = NoValue
    /\ error = NoValue
    /\ pdf = NoValue
    /\ path = "none"
    /\ videoPath = Undefined
    /\ audioPath = Undefined
    /\ fs = {UserVideo}
    /\ unlinked = <<>>
    /\ failed = {}
    /\ SplitIdle
    /\ VsIdle
    /\ UiIdle

\* processVideo from its entry to its first await: the download of a
\* YouTube URL, or the audio extraction of the user's file (index.ts:84-117)
AnalyzeSource ==
    /\ pc = "processVideo"
    /\ IF isYouTubeUrl
       THEN pc' = "download" /\ UNCHANGED videoPath
       ELSE pc' = "extractAudio" /\ videoPath' = UserVideo
    /\ UNCHANGED <<isYouTubeUrl, audioPath, fs, failed, transcript, error>>
    /\ NotesUntouched
    /\ UNCHANGED splitVars
    /\ UNCHANGED <<vsVars, uiVars>>

\* downloadYouTubeVideo or, after it failed, downloadWithYoutubeDl resolves
\* with the path of the file it wrote (index.ts:94-98, 100-101)
DownloadReturns ==
    /\ pc \in {"download", "downloadFallback"}
    /\ videoPath' = TmpVideo
    /\ fs' = fs \cup {TmpVideo}
    /\ pc' = "extractAudio"
    /\ UNCHANGED <<isYouTubeUrl, audioPath, failed, transcript, error>>
    /\ NotesUntouched
    /\ UNCHANGED splitVars
    /\ UNCHANGED <<vsVars, uiVars>>

\* downloadYouTubeVideo rejects: the other method is tried (index.ts:96-101)
DownloadFails ==
    /\ pc = "download"
    /\ pc' = "downloadFallback"
    /\ UNCHANGED <<isYouTubeUrl, videoPath, audioPath, fs, failed, transcript,
                   error>>
    /\ NotesUntouched
    /\ UNCHANGED splitVars
    /\ UNCHANGED <<vsVars, uiVars>>

\* downloadWithYoutubeDl rejects too: processVideo throws (index.ts:102-109)
\* and its catch rethrows (index.ts:187-190)
FallbackDownloadFails ==
    /\ pc = "downloadFallback"
    /\ \E m \in FailureMessages :
          error' = <<"Could not download YouTube video: ">> \o m
    /\ failed' = failed \cup {"download"}
    /\ pc' = "rejected"
    /\ UNCHANGED <<isYouTubeUrl, videoPath, audioPath, fs, transcript>>
    /\ NotesUntouched
    /\ UNCHANGED splitVars
    /\ UNCHANGED <<vsVars, uiVars>>

\* the failed audio extraction rethrown by processVideo
ExtractAudioFails_Aborts ==
    /\ pc = "extractAudio"
    /\ \E m \in FailureMessages :
          error' = <<"Audio extraction issue: ">> \o m
    /\ failed' = failed \cup {"extraction"}
    /\ pc' = "rejected"
    /\ UNCHANGED <<isYouTubeUrl, videoPath, audioPath, fs, transcript>>
    /\ NotesUntouched
    /\ UNCHANGED splitVars
    /\ UNCHANGED <<vsVars, uiVars>>

\* extractAudioFromVideo rejects: the catch puts the no-audio sentence in
\* place of the transcript and processVideo calls generateNotes
\* (index.ts:141-149)
ExtractAudioFails ==
    /\ pc = "extractAudio"
    /\ transcript' = NoAudioTranscript
    /\ failed' = failed \cup {"extraction"}
    /\ pc' = "generateNotes"
    /\ UNCHANGED <<isYouTubeUrl, videoPath, audioPath, fs, error>>
    /\ NotesUntouched
    /\ UNCHANGED splitVars
    /\ UNCHANGED <<vsVars, uiVars>>

\* extractAudioFromVideo resolves with the path of the audio file it wrote;
\* transcribeAudio starts and awaits the conversion to raw PCM
\* (index.ts:123-128, 453-487)
ExtractAudioReturns ==
    /\ pc = "extractAudio"
    /\ audioPath' = TmpAudio
    /\ fs' = fs \cup {TmpAudio}
    /\ pc' = "transcribeConvert"
    /\ UNCHANGED <<isYouTubeUrl, videoPath, failed, transcript, error>>
    /\ NotesUntouched
    /\ UNCHANGED splitVars
    /\ UNCHANGED <<vsVars, uiVars>>

\* the conversion ends: transcribeAudio reads the PCM file it wrote, unlinks
\* it and awaits the transcriber (index.ts:489-515)
ConversionReturns ==
    /\ pc = "transcribeConvert"
    /\ fs' = fs \ {TmpPcm}
    /\ pc' = "transcribeRun"
    /\ UNCHANGED <<isYouTubeUrl, videoPath, audioPath, failed, transcript,
                   error>>
    /\ NotesUntouched
    /\ UNCHANGED splitVars
    /\ UNCHANGED <<vsVars, uiVars>>

\* transcribeAudio resolves with the text (index.ts:517, 128-129)
TranscriptionReturns ==
    /\ pc = "transcribeRun"
    /\ transcript' \in Transcripts
    /\ pc' = "generateNotes"
    /\ UNCHANGED <<isYouTubeUrl, videoPath, audioPath, fs, failed, error>>
    /\ NotesUntouched
    /\ UNCHANGED splitVars
    /\ UNCHANGED <<vsVars, uiVars>>

\* transcribeAudio rejects, while it converts (the PCM file may be left
\* behind, written in part) or while it transcribes: the catch puts the
\* no-audio sentence in place of the transcript (index.ts:130-138)
TranscriptionFails ==
    /\ pc \in {"transcribeConvert", "transcribeRun"}
    /\ transcript' = NoAudioTranscript
    /\ failed' = failed \cup {"transcription"}
    /\ IF pc = "transcribeConvert"
       THEN fs' \in {fs, fs \cup {TmpPcm}}
       ELSE fs' = fs
    /\ pc' = "generateNotes"
    /\ UNCHANGED <<isYouTubeUrl, videoPath, audioPath, error>>
    /\ NotesUntouched
    /\ UNCHANGED splitVars
    /\ UNCHANGED <<vsVars, uiVars>>

PvNext ==
    \/ AnalyzeSource
    \/ DownloadReturns
    \/ DownloadFails
    \/ FallbackDownloadFails
    \/ ExtractAudioFails
    \/ ExtractAudioReturns
    \/ ConversionReturns
    \/ TranscriptionReturns
    \/ TranscriptionFails
    \/ GenerateNotes
    \/ DirectResponds
    \/ ChunkResponds
    \/ IntegrationResponds
    \/ ModelCallFails
    \/ CreatePDF
    \/ CreatePDFFails

SpecPV == PvInit /\ [][PvNext]_vars

----------------------------------------------------------------------------
(* Specification of splitIntoChunks as a function of its arguments *)

RECURSIVE JoinParagraphs(_)
\* paragraphs written one after the other with a blank line between them
JoinParagraphs(ps) ==
    IF ps = <<>> THEN <<>>
    ELSE IF Len(ps) = 1 THEN ps[1]
    ELSE ps[1] \o <<"\n", "\n">> \o JoinParagraphs(Tail(ps))

\* texts of up to MaxParagraphs non-empty paragraphs of up to
\* MaxParagraphLen characters
ParagraphTexts ==
    {JoinParagraphs(ps) :
        ps \in UNION {[1..n -> StringsUpTo({"a", "."}, MaxParagraphLen) \ {<<>>}] :
                         n \in 1..MaxParagraphs}}

SplitInit ==
    /\ text \in StringsUpTo(Alphabet, MaxTextLen) \cup ParagraphTexts
    /\ maxLength \in 1..MaxChunkLen
    /\ chunks = <<>>
    /\ splitPc = "call"
    /\ RunIdle
    /\ VsIdle
    /\ UiIdle

SplitCall ==
    /\ splitPc = "call"
    /\ chunks' = splitIntoChunks(text, maxLength)
    /\ splitPc' = "returned"
    /\ UNCHANGED <<text, maxLength>>
    /\ UNCHANGED runVars
    /\ UNCHANGED <<vsVars, uiVars>>

SplitNext == SplitCall

SpecSplit == SplitInit /\ [][SplitNext]_vars

----------------------------------------------------------------------------
(* The UIManager: its spinner and its progress bar *)

\* bounds of the calls: the texts and totals passed, the number of calls
UiTexts == {"a", "b"}
MaxTotal == 2
MaxUiCalls == 4

\* chalk.blue(text)
Blue(t) == <<"blue", t>>

\* the spinner ora({text}).start() returns
Ora(t) == [kind |-> "ora", text |-> t]

\* the bar new cliProgress.SingleBar({format}) gives, after start or update
SingleBar(fmt, total, value) ==
    [kind |-> "SingleBar", format |-> fmt, total |-> total, value |-> value]

\* the three fields of the UIManager
UiState ==
    [currentSpinner |-> currentSpinner, progressBar |-> progressBar,
     isProgressBarActive |-> isProgressBarActive]

\* the fields after the body of stopSpinner (also of spinnerSuccess,
\* spinnerFail and spinnerWarning, which differ in what they print)
StopSpinnerOf(u) ==
    IF u.currentSpinner # NoWidget
    THEN [u EXCEPT !.currentSpinner = NoWidget]
    ELSE u

\* the fields after the body of stopProgressBar
StopProgressBarOf(u) ==
    IF u.progressBar # NoWidget /\ u.isProgressBarActive
    THEN [u EXCEPT !.isProgressBarActive = FALSE, !.progressBar = NoWidget]
    ELSE u

\* the fields after the body of updateSpinner
UpdateSpinnerOf(u, t) ==
    IF u.currentSpinner # NoWidget
    THEN [u EXCEPT !.currentSpinner.text = Blue(t)]
    ELSE u

\* the fields after the body of updateProgressBar; a text that is
\* undefined or empty is falsy and leaves the format
UpdateProgressBarOf(u, value, t) ==
    IF u.progressBar # NoWidget /\ u.isProgressBarActive
    THEN [u EXCEPT !.progressBar.format =
                       IF t \notin {Undefined, ""} THEN Blue(t) ELSE @,
                   !.progressBar.value = value]
    ELSE u

\* one call of a method, leaving the fields as u
UiCall(method, u) ==
    /\ uiCalls < MaxUiCalls
    /\ uiCalls' = uiCalls + 1
    /\ lastCall' = method
    /\ currentSpinner' = u.currentSpinner
    /\ progressBar' = u.progressBar
    /\ isProgressBarActive' = u.isProgressBarActive
    /\ UNCHANGED <<splitVars, runVars, vsVars>>

startSpinner_KeepsBar ==
    \E t \in UiTexts :
        UiCall("startSpinner",
               [StopSpinnerOf(UiState) EXCEPT !.currentSpinner = Ora(Blue(t))])

startSpinner ==
    \E t \in UiTexts :
        UiCall("startSpinner",
               [StopProgressBarOf(StopSpinnerOf(UiState))
                   EXCEPT !.currentSpinner = Ora(Blue(t))])

updateSpinner ==
    \E t \in UiTexts : UiCall("updateSpinner", UpdateSpinnerOf(UiState, t))

spinnerSuccess == UiCall("spinnerSuccess", StopSpinnerOf(UiState))

spinnerFail == UiCall("spinnerFail", StopSpinnerOf(UiState))

spinnerWarning == UiCall("spinnerWarning", StopSpinnerOf(UiState))

stopSpinner == UiCall("stopSpinner", StopSpinnerOf(UiState))

startProgressBar ==
    \E total \in 1..MaxTotal, t \in UiTexts \cup {Undefined} :
        LET shown == IF t = Undefined THEN "Processing" ELSE t
        IN  UiCall("startProgressBar",
                   [StopProgressBarOf(StopSpinnerOf(UiState))
                       EXCEPT !.progressBar = SingleBar(Blue(shown), total, 0),
                              !.isProgressBarActive = TRUE])

updateProgressBar ==
    \E value \in 0..MaxTotal, t \in UiTexts \cup {Undefined, ""} :
        UiCall("updateProgressBar", UpdateProgressBarOf(UiState, value, t))

stopProgressBar == UiCall("stopProgressBar", StopProgressBarOf(UiState))

UiInit ==
    /\ UiIdle
    /\ SplitIdle
    /\ RunIdle
    /\ VsIdle

UiNext ==
    \/ startSpinner
    \/ updateSpinner
    \/ spinnerSuccess
    \/ spinnerFail
    \/ spinnerWarning
    \/ stopSpinner
    \/ startProgressBar
    \/ updateProgressBar
    \/ stopProgressBar

SpecUI == UiInit /\ [][UiNext]_vars

----------------------------------------------------------------------------
(* Properties of a run of generateNotes, checked under Spec *)

\* the profile's provider, for a run whose model key is registered
Provider == MODELS[SelectedKey].provider

\* the run got past the empty-transcript guard and the model lookup
Synthesizing == path \in {"chunk", "direct"}

\* the path the stated priority selects
ClaimedPath ==
    IF options.vectorStore.enabled THEN "rag"
    ELSE IF 10 * Len(transcript) > 7 * MODELS[SelectedKey].contextWindow
         THEN "chunk"
    ELSE "direct"

\* C3: a run takes the path the priority names: the RAG path when the
\* vector-store flag is enabled, else the chunk path exactly when
\* transcript.length > 0.7 x contextWindow, else the direct path.
C3_PathByPriority == Synthesizing => path = ClaimedPath

HasIntegrationCall ==
    \E k \in 1..Len(requests) : requests[k].prompt.kind = "integration"

\* C4 as stated: in the chunk path the integration call is made iff there
\* is more than one segment, and with exactly one segment generateNotes
\* returns that segment's note unchanged.
C4_SingleSegmentUnchanged ==
    (path = "chunk" /\ notes # NoValue) =>
        /\ HasIntegrationCall <=> Len(segs) > 1
        /\ Len(segs) = 1 => notes = outcomes[1].text

\* C4 amended: the integration call is made iff there is more than one
\* segment, and with exactly one segment generateNotes returns that
\* segment's note followed by the separator "\n\n".
C4_SingleSegmentPlusSeparator ==
    path = "chunk" =>
        /\ HasIntegrationCall => Len(segs) > 1
        /\ notes # NoValue =>
              /\ HasIntegrationCall <=> Len(segs) > 1
              /\ Len(segs) = 1 => notes = outcomes[1].text \o <<"\n\n">>

C4_Witness ==
    /\ path = "chunk"
    /\ Len(segs) = 1
    /\ notes # NoValue
    /\ ~HasIntegrationCall

\* C5: whatever the transcript, a run with an unregistered model key aborts
\* with an error that contains every registered key, before any model or
\* vector-index call; getModel returns the profile of every registered key.
C5_UnknownKeyAborts ==
    /\ \A k \in Range(ModelKeys) :
          ~getModel(k).threw /\ getModel(k).config = MODELS[k]
    /\ (SelectedKey \notin Range(ModelKeys) /\ pc # "generateNotes") =>
          /\ pc = "rejected"
          /\ \A k \in Range(ModelKeys) : k \in Range(error)
          /\ requests = <<>>
          /\ indexOps = <<>>

\* C6: a failed model call is the last call of the run: no request follows
\* it, it is not retried, the run is rejected with the backend's message
\* in the error, no notes are returned and no PDF is made.
C6_FailFast ==
    \A k \in 1..Len(outcomes) :
        ~outcomes[k].ok =>
            /\ k = Len(outcomes)
            /\ Len(requests) = k
            /\ pc = "rejected"
            /\ error = <<"Failed to generate notes: ">> \o outcomes[k].text
            /\ notes = NoValue
            /\ pdf = NoValue

C6_Witness ==
    /\ path = "chunk"
    /\ Len(outcomes) >= 2
    /\ ~outcomes[Len(outcomes)].ok
    /\ allNotes # <<>>

CountOps(op) == Cardinality({k \in 1..Len(indexOps) : indexOps[k] = op})

\* C7: a completed run with the vector store enabled has queried the index
\* once per outline point and has called clear() exactly once, as its last
\* index operation.
C7_RagQueriesThenClear ==
    (options.vectorStore.enabled /\ Synthesizing /\ pc = "resolved") =>
        /\ CountOps("clear") = 1
        /\ indexOps[Len(indexOps)] = "clear"
        /\ CountOps("query") = Len(indexOps) - 2

\* the credential the claim names for each provider
ClaimedCredential ==
    IF Provider = "openai" THEN "OPENAI_API_KEY" ELSE "ANTHROPIC_API_KEY"

OtherCredential ==
    IF Provider = "openai" THEN "ANTHROPIC_API_KEY" ELSE "OPENAI_API_KEY"

\* C9: when the credential of the profile's provider is not configured, the
\* first model call fails with an error naming that credential and no
\* request is sent, whether or not the other credential is configured.
C9_MissingCredential ==
    (Synthesizing /\ ~env[ClaimedCredential]) =>
        /\ pc = "rejected"
        /\ requests = <<>>
        /\ ClaimedCredential \in Range(error)
        /\ OtherCredential \notin Range(error)

C9_Witness ==
    /\ Synthesizing
    /\ Provider = "openai"
    /\ ~env["OPENAI_API_KEY"]
    /\ env["ANTHROPIC_API_KEY"]
    /\ pc = "rejected"

----------------------------------------------------------------------------
(* Order of the calls of the chunk path, checked under Spec *)

RECURSIVE NotesOfFirst(_, _)
\* the notes answered to the first k calls, one after the other in the
\* order of the calls, each followed by the separator
NotesOfFirst(os, k) ==
    IF k = 0 THEN <<>>
    ELSE NotesOfFirst(os, k - 1) \o os[k].text \o <<"\n\n">>

IsPrefix(a, b) == Len(a) <= Len(b) /\ SubSeq(b, 1, Len(a)) = a

\* C14: in the chunk path the calls are made one at a time in the order of
\* the segments, the i-th call carrying the i-th segment; after k calls the
\* accumulated notes are the notes of segments 1..k in that order, so every
\* earlier value is a prefix of every later one; the integration prompt
\* carries the notes of all segments in order.
C14_SequentialInOrder ==
    /\ [](path = "chunk" =>
            /\ Len(requests) <= Len(outcomes) + 1
            /\ idx <= Len(outcomes)
            /\ \A k \in 1..idx : outcomes[k].ok
            /\ allNotes = NotesOfFirst(outcomes, idx)
            /\ \A k \in 1..Len(requests) :
                  IF k <= Len(segs)
                  THEN /\ requests[k].prompt.kind = "segment"
                       /\ requests[k].prompt.part = k
                       /\ requests[k].prompt.body = segs[k]
                       /\ k <= idx + 1
                  ELSE /\ k = Len(segs) + 1
                       /\ idx = Len(segs)
                       /\ requests[k].prompt.kind = "integration"
                       /\ requests[k].prompt.body =
                              NotesOfFirst(outcomes, Len(segs)))
    /\ [][IsPrefix(allNotes, allNotes')]_vars

C14_Witness ==
    /\ path = "chunk"
    /\ Len(segs) >= 2
    /\ Len(requests) = Len(segs) + 1
    /\ requests[Len(requests)].prompt.kind = "integration"
    /\ outcomes[1].text # outcomes[2].text

----------------------------------------------------------------------------
(* The empty transcript and the documented model keys, checked under Spec *)

\* C18: for a transcript that is empty, whitespace only or holds the
\* no-audio sentence, generateNotes does no normal synthesis and returns a
\* short note, and it still invokes the model exactly once, with an
\* explanatory prompt and not with a synthesis prompt.
C18_EmptyTranscriptOneCall ==
    (IsEmptyTranscript(transcript) /\ pc # "generateNotes") =>
        /\ notes # NoValue
        /\ Len(requests) = 1
        /\ requests[1].prompt.kind \notin {"segment", "integration", "direct"}

\* the values the README gives for --model (README, src/unnamed/part_001:171)
DocumentedModelKeys ==
    {"claude-3-opus", "claude-3.5-sonnet", "claude-3.7-sonnet",
     "gpt-4-turbo", "gpt-4"}

\* C19: every documented value of --model resolves through getModel, so a
\* run that names one is not rejected as an unsupported model, and a run
\* that names none uses claude-3.7-sonnet.
C19_DocumentedKeysResolve ==
    (pc # "generateNotes" /\ ~IsEmptyTranscript(transcript)
        /\ options.model \in DocumentedModelKeys \cup {Undefined}) =>
        /\ options.model = Undefined => SelectedKey = "claude-3.7-sonnet"
        /\ Synthesizing
        /\ error # WrapNotesError(UnsupportedModelMessage(SelectedKey))

----------------------------------------------------------------------------
(* What a request carries, checked under Spec *)

\* the persona the caller hands to processWithModel with the k-th request
PersonaOf(k) ==
    IF requests[k].prompt.kind = "integration" THEN EditorPersona
    ELSE NoteTakerPersona

\* C21: the system prompt given to processWithModel is part of the request
\* sent to the backend for every provider: the integration call carries the
\* editor persona and every synthesis call the note-taker persona.
C21_SystemPromptSent ==
    \A k \in 1..Len(requests) : requests[k].system = PersonaOf(k)

\* C22: every request sent to a backend carries the output-token cap 4096,
\* whatever the provider, the profile, the path and the prompt.
C22_UniformTokenCap ==
    \A k \in 1..Len(requests) : requests[k].max_tokens = 4096

\* an anthropic run of the chunk path that has sent its integration request
C22_Witness ==
    /\ Len(requests) >= 3
    /\ requests[1].backend = "anthropic"
    /\ requests[1].prompt.kind = "segment"
    /\ requests[Len(requests)].prompt.kind = "integration"

CallsOfPath ==
    CASE path = "direct" -> 1
      [] path = "chunk" -> Len(segs) + (IF Len(segs) > 1 THEN 1 ELSE 0)
      [] OTHER -> 0

\* C25: the number of model calls is fixed by the path: one in the direct
\* path; with n segments, n synthesis calls and then, when n > 1, one
\* integration call, the last call, issued when all n synthesis calls have
\* returned; none for an empty transcript or one that holds the no-audio
\* sentence.
C25_CallsByPath ==
    /\ Len(requests) <= CallsOfPath
    /\ notes # NoValue => Len(requests) = CallsOfPath
    /\ IsEmptyTranscript(transcript) => requests = <<>>
    /\ \A k \in 1..Len(requests) :
          requests[k].prompt.kind =
              (IF path = "direct" THEN "direct"
               ELSE IF k <= Len(segs) THEN "segment" ELSE "integration")
    /\ HasIntegrationCall =>
          /\ Len(outcomes) >= Len(segs)
          /\ \A k \in 1..Len(segs) : outcomes[k].ok

C25_Witness ==
    /\ path = "chunk"
    /\ Len(segs) = 2
    /\ notes # NoValue
    /\ Len(requests) = 3
    /\ pc = "resolved"

----------------------------------------------------------------------------
(* Failures and files of processVideo, checked under SpecPV *)

\* generateNotes was called and is over
NotesOver == pc \in {"createPDF", "resolved", "rejected"} /\ path # "none"

\* C28: a failure of the audio extraction or of the transcription does not
\* abort processVideo: the transcript becomes the no-audio sentence,
\* generateNotes is called and returns its fixed text without a model call,
\* and createPDF runs; processVideo rejects only for a failed download, a
\* failure of generateNotes or a failure of createPDF.
C28_AudioFailureGoesOn ==
    /\ failed \cap {"extraction", "transcription"} # {} =>
          /\ transcript = NoAudioTranscript
          /\ requests = <<>>
          /\ pc \in {"generateNotes", "createPDF", "resolved", "rejected"}
          /\ pc # "generateNotes" => path = "empty" /\ notes = NoContentNotes
          /\ pc = "rejected" => error[1] = "Failed to create PDF: "
          /\ pc = "resolved" => pdf = Trim(NoContentNotes)
    /\ pc = "rejected" =>
          error[1] \in {"Could not download YouTube video: ",
                        "Failed to generate notes: ",
                        "Failed to create PDF: "}

C28_Witness ==
    /\ "transcription" \in failed
    /\ audioPath = TmpAudio
    /\ pc = "resolved"
    /\ pdf = Trim(NoContentNotes)

----------------------------------------------------------------------------
(* Properties of splitIntoChunks, checked under SpecSplit *)

\* C1: the segments, concatenated in order, give back the text up to
\* whitespace: no other character is dropped, duplicated or reordered.
C1_ConcatenationReproducesText ==
    splitPc = "returned" => StripWs(Flatten(chunks)) = StripWs(text)

\* C2: every segment has length <= maxLength (a forced-cut piece has
\* length maxLength, so no segment is excepted).
C2_SegmentsWithinBound ==
    splitPc = "returned" =>
        \A k \in 1..Len(chunks) : Len(chunks[k]) <= maxLength

HasParagraphBreak(t) == Len(SplitParagraphs(t)) > 1

\* C10 as stated: no segment for the empty text, exactly one for every
\* non-empty text shorter than maxLength, equal to the text when the text
\* has no paragraph break.
C10_ShortTextOneSegment ==
    splitPc = "returned" =>
        /\ text = <<>> => chunks = <<>>
        /\ (text # <<>> /\ Len(text) < maxLength) =>
              /\ Len(chunks) = 1
              /\ ~HasParagraphBreak(text) => chunks = <<text>>

\* the text is made of blank-line separators only
OnlySeparators(t) == \A k \in 1..Len(SplitParagraphs(t)) : SplitParagraphs(t)[k] = <<>>

\* C10 amended: no segment for the empty text; for a non-empty text shorter
\* than maxLength, exactly one segment unless the text consists of
\* blank-line separators only, and then none; the single segment equals the
\* text when the text has no paragraph break.
C10_ShortTextOneSegmentUnlessBlank ==
    splitPc = "returned" =>
        /\ text = <<>> => chunks = <<>>
        /\ (text # <<>> /\ Len(text) < maxLength) =>
              /\ Len(chunks) = (IF OnlySeparators(text) THEN 0 ELSE 1)
              /\ ~HasParagraphBreak(text) => chunks = <<text>>

C10_Witness ==
    /\ splitPc = "returned"
    /\ text # <<>>
    /\ Len(text) < maxLength
    /\ HasParagraphBreak(text)
    /\ ~OnlySeparators(text)
    /\ Len(chunks) = 1

----------------------------------------------------------------------------
(* Forced cuts, packing and over-long paragraphs, checked under SpecSplit *)

\* the text is one paragraph without sentence-terminal punctuation
OneUnpunctuatedParagraph(t) ==
    /\ Len(SplitParagraphs(t)) = 1
    /\ \A k \in 1..Len(t) : ~IsPunct(t[k])

\* C11: one paragraph of n characters without sentence-terminal
\* punctuation, n > maxLength, comes out as ceil(n / maxLength) segments:
\* the successive pieces of maxLength characters, the last one the
\* remainder.
C11_ForcedCutPieces ==
    (splitPc = "returned" /\ OneUnpunctuatedParagraph(text)
                          /\ Len(text) > maxLength) =>
        /\ Len(chunks) = Ceil(Len(text), maxLength)
        /\ \A k \in 1..Len(chunks) :
              chunks[k] = Substring(text, (k - 1) * maxLength,
                                    Min(k * maxLength, Len(text)))

\* C12: no two adjacent segments could have been merged: the lengths of a
\* segment and of the one after it add up to more than maxLength.
C12_AdjacentNotMergeable ==
    splitPc = "returned" =>
        \A k \in 1..(Len(chunks) - 1) :
            Len(chunks[k]) + Len(chunks[k + 1]) > maxLength

C12_Witness ==
    /\ splitPc = "returned"
    /\ Len(chunks) >= 3
    /\ Len(SplitParagraphs(text)) >= 2
    /\ \E k \in 1..(Len(chunks) - 1) :
          /\ Len(chunks[k]) <= maxLength
          /\ Len(chunks[k + 1]) <= maxLength

RECURSIVE GreedyPack(_, _, _, _)
\* the packing rule as C13 words it, over st = [out, cur, alone]: the
\* paragraph joins the current segment exactly when the two lengths add up
\* to at most L, otherwise the current segment is emitted and the paragraph
\* starts the next one; `alone` records that the rule had no current
\* segment to emit, the case the sentence splitting takes over
GreedyPack(st, paragraphs, k, L) ==
    IF k > Len(paragraphs) THEN st
    ELSE LET p == paragraphs[k]
         IN  GreedyPack(
                 IF Len(st.cur) + Len(p) <= L
                 THEN [out |-> st.out,
                       cur |-> IF st.cur = <<>> THEN p
                               ELSE st.cur \o <<"\n", "\n">> \o p,
                       alone |-> st.alone]
                 ELSE IF st.cur # <<>>
                      THEN [out |-> Append(st.out, st.cur), cur |-> p,
                            alone |-> st.alone]
                      ELSE [out |-> st.out, cur |-> p, alone |-> TRUE],
                 paragraphs, k + 1, L)

Packed(t, L) ==
    GreedyPack([out |-> <<>>, cur |-> <<>>, alone |-> FALSE],
               SplitParagraphs(t), 1, L)

\* C13: paragraphs are packed greedily: the next paragraph is appended to
\* the current segment exactly when len(current) + len(next) <= maxLength,
\* otherwise the current segment is emitted and a new one starts with that
\* paragraph.
C13_GreedyPacking ==
    (splitPc = "returned" /\ ~Packed(text, maxLength).alone) =>
        chunks = (IF Packed(text, maxLength).cur # <<>>
                  THEN Append(Packed(text, maxLength).out,
                              Packed(text, maxLength).cur)
                  ELSE Packed(text, maxLength).out)

\* three equal paragraphs of which two fit in maxLength and three do not
\* come out as two segments, the first holding paragraphs 1 and 2
C13_Witness ==
    /\ splitPc = "returned"
    /\ text = <<"a", "\n", "\n", "a", "\n", "\n", "a">>
    /\ maxLength = 4
    /\ chunks = << <<"a", "\n", "\n", "a">>, <<"a">> >>

\* C20: a paragraph that alone exceeds maxLength is split, whatever its
\* position in the text: it is never emitted whole as one segment.
C20_LongParagraphNeverWhole ==
    splitPc = "returned" =>
        \A j \in 1..Len(SplitParagraphs(text)) :
            Len(SplitParagraphs(text)[j]) > maxLength =>
                \A k \in 1..Len(chunks) : chunks[k] # SplitParagraphs(text)[j]

----------------------------------------------------------------------------
(* Properties of two VectorStore objects on one index, checked under SpecVS *)

\* the records store s has written that are in the index
RecordsBy(s) ==
    UNION {{r \in vecIndex[ns] : r.by = s} : ns \in IndexNamespaces}

\* C8: stores constructed with different namespaces do not touch each
\* other's records: a query returns only records its own store wrote, and a
\* step of one store (an upsert, a deleteAll) leaves the records of the
\* other store as they were.
C8_NamespaceIsolation ==
    /\ [](\A s \in Stores :
            \A k \in 1..Len(vs[s].results) : vs[s].results[k].metadata.by = s)
    /\ [][\A s \in Stores :
            vs'[s] = vs[s] => RecordsBy(s)' = RecordsBy(s)]_vars

----------------------------------------------------------------------------
(* Properties of the calls of one VectorStore object, checked under
   SpecStore *)

\* C15: storeTranscript works through its chunks in batches of at most
\* BatchSize, one batch after the other: the embeddings in flight are
\* embeddings of the current batch, at most BatchSize of them; none of a
\* batch is in flight before every earlier batch is upserted; the upsert of
\* a batch is issued only when every embedding of the batch has returned.
C15_BatchesInSequence ==
    \A s \in Stores :
        LET st == vs[s]
        IN  /\ Cardinality(st.pending) <= BatchSize
            /\ st.pending \subseteq BatchPositions(st.chunks, st.i)
            /\ st.pc = "upserting" => st.pending = {}
            /\ st.pc \in {"embedding", "upserting"} =>
                  \A j \in 0..(st.i - 1) :
                      ChunkRecord(s, st.chunks, j)
                          \in vecIndex[TargetNamespace(st)]

\* the second batch is being embedded after a first batch of BatchSize
C15_Witness ==
    /\ vs[TheStore].pc = "embedding"
    /\ vs[TheStore].i = BatchSize
    /\ BatchSize > 1
    /\ vs[TheStore].pending # {}
    /\ Cardinality(vecIndex[TargetNamespace(vs[TheStore])]) = BatchSize

\* query has returned
QueryReturned(s) ==
    vs[s].pc = "idle" /\ vs[s].topK > 0 /\ vs[s].error = NoError

NonIncreasing(results) ==
    \A a, b \in 1..Len(results) : a < b => results[a].score >= results[b].score

\* the positions of the matches that have metadata with a string text, and
\* a numeric score
ValidPositions(reply) ==
    {k \in 1..Len(reply) : reply[k].shape = "full"}

\* every result is made of a valid match, and every valid match gives a
\* result
MadeOfValidMatches(results, reply) ==
    /\ \A k \in 1..Len(results) :
          \E q \in ValidPositions(reply) :
              /\ results[k].text = reply[q].record.text
              /\ results[k].score = reply[q].score
              /\ results[k].metadata = reply[q].record
    /\ Len(results) = Cardinality(ValidPositions(reply))

\* C16 as stated: query returns at most topK results, each made of a match
\* that has metadata with a string text and a numeric score, the other
\* matches discarded, and the results are in order of non-increasing score
\* whatever the order of the matches.
C16_QueryRanked ==
    \A s \in Stores :
        QueryReturned(s) =>
            /\ Len(vs[s].results) <= vs[s].topK
            /\ MadeOfValidMatches(vs[s].results, vs[s].reply)
            /\ NonIncreasing(vs[s].results)

\* the valid matches of the reply, in the order of the reply
RECURSIVE ValidInOrder(_)
ValidInOrder(reply) ==
    IF reply = <<>> THEN <<>>
    ELSE (IF Head(reply).shape = "full" THEN <<Head(reply)>> ELSE <<>>)
             \o ValidInOrder(Tail(reply))

\* C16 amended: query returns at most topK results, each made of a match
\* that has metadata with a string text and a numeric score, the other
\* matches discarded, and the results are in the order in which the index
\* returned their matches: in order of non-increasing score exactly when
\* the valid matches came in that order.
C16_QueryKeepsIndexOrder ==
    \A s \in Stores :
        QueryReturned(s) =>
            /\ Len(vs[s].results) <= vs[s].topK
            /\ MadeOfValidMatches(vs[s].results, vs[s].reply)
            /\ Len(vs[s].results) = Len(ValidInOrder(vs[s].reply))
            /\ \A k \in 1..Len(vs[s].results) :
                  /\ vs[s].results[k].score = ValidInOrder(vs[s].reply)[k].score
                  /\ vs[s].results[k].metadata =
                         ValidInOrder(vs[s].reply)[k].record
            /\ NonIncreasing(vs[s].results)
                  <=> NonIncreasing(ValidInOrder(vs[s].reply))

\* a query whose reply held a match to discard and two valid matches, the
\* lower score first
C16_Witness ==
    /\ QueryReturned(TheStore)
    /\ Len(vs[TheStore].reply) = 3
    /\ Len(vs[TheStore].results) = 2
    /\ vs[TheStore].results[1].score < vs[TheStore].results[2].score

\* C17: a call of the store that fails after records were stored is
\* followed by the cleanup: when the failure is reported no record the
\* store wrote remains in the index, and the error reported is the error
\* of the failed call.
C17_FailureCleansUp ==
    \A s \in Stores :
        (vs[s].pc = "idle" /\ vs[s].error.op \in {"storeTranscript", "query"}) =>
            /\ vs[s].error.message \in FailureMessages
            /\ RecordsBy(s) = {}

\* the step of store s is the return of storeTranscript
StoreReturns(s) ==
    /\ vs[s].pc = "upserting"
    /\ vs'[s].pc = "idle"
    /\ vs'[s].error = NoError

\* C23: when storeTranscript returns for a transcript of n chunks, the
\* index holds one record for each chunk, their ids pairwise distinct, and
\* the record of the chunk at position j has chunkIndex = j, totalChunks = n
\* and the text of that chunk, for every j in 0..n-1, whatever the keys of
\* the caller's metadata.
C23_OneRecordPerChunk ==
    [][\A s \in Stores :
          StoreReturns(s) =>
              LET cs   == vs[s].chunks
                  recs == vecIndex'[TargetNamespace(vs[s])]
              IN  \A j \in 0..(Len(cs) - 1) :
                      \E r \in recs :
                          /\ r.id = <<"chunk_", j>>
                          /\ \A o \in recs : o.id = r.id => o = r
                          /\ r.chunkIndex = j
                          /\ r.totalChunks = Len(cs)
                          /\ r.text = cs[j + 1]]_vars

\* the words of a text, cut at single spaces
WordsOf(t) == SplitAtSpaces(t)

\* C26: storeTranscript cuts the transcript at single spaces into chunks of
\* at most ceil(chunkSize / 5) words (400 in the code): every chunk but the
\* last has exactly that many words, there are ceil(w / 400) chunks for a
\* transcript of w words (one chunk with empty text for the empty
\* transcript), and the chunk texts joined with single spaces in order are
\* the transcript.
C26_WordChunks ==
    \A s \in Stores :
        vs[s].pc \in {"embedding", "upserting"} =>
            LET t  == vs[s].stored
                cs == vs[s].chunks
                sz == Ceil(ChunkSize, 5)
            IN  /\ Len(cs) = Ceil(Len(WordsOf(t)), sz)
                /\ \A k \in 1..(Len(cs) - 1) : Len(WordsOf(cs[k])) = sz
                /\ Len(cs) >= 1
                /\ Len(WordsOf(cs[Len(cs)])) \in 1..sz
                /\ JoinWithSpaces(cs) = t
                /\ t = <<>> => cs = << <<>> >>

\* a transcript of full chunks and a last one that is not full is being
\* stored
C26_Witness ==
    /\ vs[TheStore].pc = "embedding"
    /\ Len(vs[TheStore].chunks) = 3
    /\ Len(WordsOf(vs[TheStore].stored)) = 5
    /\ Len(WordsOf(vs[TheStore].chunks[3])) = 1

\* the step of store s is a rejection of storeTranscript
StoreRejects(s) ==
    /\ vs[s].pc \in {"embedding", "upserting"}
    /\ vs'[s].error.op = "storeTranscript"

\* C27: when an embedding or the upsert of batch k fails, storeTranscript
\* rejects with that error; the index is left as it was, so no record of
\* batch k is written and the records of the batches before k stay; no
\* embedding is in flight and no later batch is started: there is no
\* rollback and no retry.
C27_NoRollbackNoRetry ==
    [][\A s \in Stores :
          StoreRejects(s) =>
              /\ vs'[s].error.message \in FailureMessages
              /\ vecIndex' = vecIndex
              /\ \A j \in 0..(vs[s].i - 1) :
                    ChunkRecord(s, vs[s].chunks, j)
                        \in vecIndex'[TargetNamespace(vs[s])]
              /\ vs'[s].pc = "idle"
              /\ vs'[s].pending = {}
              /\ vs'[s].ops = vs[s].ops]_vars

\* a storeTranscript has rejected in its second batch, the records of its
\* first batch in the index
C27_Witness ==
    /\ vs[TheStore].pc = "idle"
    /\ vs[TheStore].error.op = "storeTranscript"
    /\ vs[TheStore].ops = 1
    /\ Cardinality(vecIndex[TargetNamespace(vs[TheStore])]) = BatchSize

\* the methods that act on the spinner only when there is one
SpinnerCalls ==
    {"updateSpinner", "spinnerSuccess", "spinnerFail", "spinnerWarning",
     "stopSpinner"}

\* the methods that act on the progress bar only when it is active
ProgressBarCalls == {"updateProgressBar", "stopProgressBar"}

\* the step is a call of an update, success, fail, warning or stop method
\* whose widget is not active
InactiveWidgetCall ==
    /\ uiCalls' = uiCalls + 1
    /\ \/ lastCall' \in SpinnerCalls /\ currentSpinner = NoWidget
       \/ /\ lastCall' \in ProgressBarCalls
          /\ ~(progressBar # NoWidget /\ isProgressBarActive)

\* C30: after any sequence of UIManager calls at most one of the spinner
\* and the progress bar is active, isProgressBarActive is true exactly when
\* progressBar is not null, and a call of an update, success, fail, warning
\* or stop method made while its widget is inactive leaves the three fields
\* as they were.
C30_OneWidgetAtATime ==
    /\ [](/\ ~(currentSpinner # NoWidget /\ progressBar # NoWidget)
          /\ isProgressBarActive <=> progressBar # NoWidget)
    /\ [][InactiveWidgetCall =>
              UNCHANGED <<currentSpinner, progressBar,
                          isProgressBarActive>>]_vars

\* a spinner replaced a progress bar, and the bar was then updated while
\* inactive
C30_Witness ==
    /\ lastCall = "updateProgressBar"
    /\ currentSpinner # NoWidget
    /\ progressBar = NoWidget
    /\ uiCalls >= 3

====
